---- MODULE Spec2Model ----
(***************************************************************************)
(* Model of src/lol.py: the /lol endpoint of the "Telika kephalaia Action" *)
(* service (topos-based FOR/AGAINST argument generation with optional      *)
(* pentadic ratio lenses).                                                 *)
(*                                                                         *)
(* Representation.  A Python str is a sequence of tokens (Str): a token is *)
(* either a whitespace character or a run of text that contains no         *)
(* surrounding whitespace of its own.  str.strip() removes leading and     *)
(* trailing whitespace tokens, string concatenation and f-string           *)
(* interpolation are \o, str.format replaces the "{name}" tokens of a      *)
(* template.  An Optional value is None == <<>> or Some(x) == <<x>>.       *)
(* The characters of the source that lie outside Latin-1 are written in    *)
(* ASCII: an en dash as "-", an arrow as "->", an em dash as "--", a       *)
(* backquote as an apostrophe.                                             *)
(*                                                                         *)
(* The module-level catalogs TOPOI, RATIO_BANK and TOPOS_TO_DEFAULT_RATIOS *)
(* are mutable Python objects shared by all invocations, so they are state *)
(* variables here; every helper reads them from the current state.         *)
(***************************************************************************)
EXTENDS Integers, Sequences, FiniteSets, TLC

VARIABLES
  TOPOI,                    \* List[str], src/lol.py:185
  RATIO_BANK,               \* Dict[str, Dict[str, str]], src/lol.py:25
  TOPOS_TO_DEFAULT_RATIOS,  \* Dict[str, List[str]], src/lol.py:106
  pending,                  \* the LolRequest objects handed to lol_action
  responses,                \* per request: None, or Some(LolResponse)
  call,                     \* None, or Some(arguments of a direct helper call)
  result                    \* None, or Some(value the helper returned)

catalogs == <<TOPOI, RATIO_BANK, TOPOS_TO_DEFAULT_RATIOS>>
vars == <<TOPOI, RATIO_BANK, TOPOS_TO_DEFAULT_RATIOS, pending, responses, call, result>>

(***************************************************************************)
(* Strings, Optional values and list helpers                               *)
(***************************************************************************)
S(x) == <<x>>

None == <<>>

Some(x) == <<x>>

Whitespace == {" ", "\t", "\n"}

RECURSIVE lstrip(_)
lstrip(s) ==
  IF s # <<>> /\ Head(s) \in Whitespace THEN lstrip(Tail(s)) ELSE s

RECURSIVE rstrip(_)
rstrip(s) ==
  IF s # <<>> /\ s[Len(s)] \in Whitespace
  THEN rstrip(SubSeq(s, 1, Len(s) - 1))
  ELSE s

\* str.strip()
strip(s) == rstrip(lstrip(s))

\* xs[:n] for n >= 0
Slice(xs, n) == SubSeq(xs, 1, IF n < Len(xs) THEN n ELSE Len(xs))

\* x in xs, for a list xs
InList(x, xs) == \E i \in 1..Len(xs) : xs[i] = x

\* sep.join(xs)
RECURSIVE join(_, _)
join(sep, xs) ==
  IF xs = <<>> THEN <<>>
  ELSE IF Len(xs) = 1 THEN Head(xs)
  ELSE Head(xs) \o sep \o join(sep, Tail(xs))

\* template.format(**bindings): every "{name}" token is replaced by its value
RECURSIVE format(_, _)
format(template, bindings) ==
  IF template = <<>> THEN <<>>
  ELSE (IF Head(template) \in DOMAIN bindings
        THEN bindings[Head(template)]
        ELSE <<Head(template)>>) \o format(Tail(template), bindings)

(***************************************************************************)
(* The catalogs as the module defines them                                 *)
(***************************************************************************)
RATIO_BANK_init ==
  S("scene_act") :>
    [label |-> S("Scene-Act (kontekst -> handling)"),
     for |-> <<"Givet scenen/konteksten (",
               "{scene_hint}",
               "), fremstår handlingen '",
               "{claim}",
               "' som en passende respons, fordi omstændighederne gør denne type tiltag forventeligt/tilpasset.">>,
     against |-> <<"Netop fordi scenen/konteksten (",
                   "{scene_hint}",
                   ") ser ud som den gør, er handlingen '",
                   "{claim}",
                   "' misforholdt eller risikabel: konteksten peger på andre, mere proportionale skridt.">>] @@
  S("act_scene") :>
    [label |-> S("Act-Scene (handling -> ny kontekst)"),
     for |-> <<"Hvis vi gennemfører '",
               "{claim}",
               "', skaber handlingen en ny scene/kontekst: incitamenter, normer eller rammer flyttes, så ønskede effekter bliver mere sandsynlige.">>,
     against |-> <<"Hvis vi gennemfører '",
                   "{claim}",
                   "', skaber handlingen en scene/kontekst, hvor uønskede effekter bliver mere sandsynlige (fx omgåelse, skævvridning, mistillid eller systempres).">>] @@
  S("agent_act") :>
    [label |-> S("Agent-Act (aktør/ansvar -> handling)"),
     for |-> <<"Set som Agent-Act: Den/de relevante aktører bør handle i retning af '",
               "{claim}",
               "', fordi deres rolle, ansvar eller legitimitet netop forpligter dem til denne type handling.">>,
     against |-> <<"Set som Agent-Act: Det er urimeligt at pålægge aktøren '",
                   "{claim}",
                   "', fordi handlingen ikke passer til aktørens mandat/rolle/ansvar - og ansvaret bør placeres andetsteds.">>] @@
  S("act_agent") :>
    [label |-> S("Act-Agent (handling -> karakter/legitimitet)"),
     for |-> <<"Set som Act-Agent: At gennemføre '",
               "{claim}",
               "' signalerer ansvarlighed og integritet - og styrker aktørens legitimitet i den relevante offentlighed.">>,
     against |-> <<"Set som Act-Agent: At gennemføre '",
                   "{claim}",
                   "' kan signalere hykleri, overgreb eller naivitet - og svækker dermed aktørens troværdighed/legitimitet.">>] @@
  S("agency_act") :>
    [label |-> S("Agency-Act (midler -> handlingens kvalitet)"),
     for |-> <<"Set som Agency-Act: Med de rigtige midler/procedurer kan '",
               "{claim}",
               "' udføres præcist og proportionelt, så intentionen realiseres uden unødig skade.">>,
     against |-> <<"Set som Agency-Act: Uden robuste midler/procedurer bliver '",
                   "{claim}",
                   "' enten symbolpolitik eller vilkårlig håndhævelse, hvilket undergraver både effekt og legitimitet.">>] @@
  S("purpose_act") :>
    [label |-> S("Purpose-Act (mål -> handling)"),
     for |-> <<"Set som Purpose-Act: Hvis målet er (",
               "{purpose_hint}",
               "), følger '",
               "{claim}",
               "' som et konsistent skridt for at realisere dette telos.">>,
     against |-> <<"Set som Purpose-Act: Hvis målet er (",
                   "{purpose_hint}",
                   "), er '",
                   "{claim}",
                   "' en omvej eller kontraproduktivt - andre handlinger realiserer målet mere sikkert/billigt/retfærdigt.">>] @@
  S("act_purpose") :>
    [label |-> S("Act-Purpose (handling -> afslører formål)"),
     for |-> <<"Set som Act-Purpose: '",
               "{claim}",
               "' er ikke bare retorik; det er den type handling, der i praksis kan realisere et erklæret formål - og gør målet troværdigt.">>,
     against |-> <<"Set som Act-Purpose: '",
                   "{claim}",
                   "' kan dække over et andet (u-udtalt) formål end det erklærede, fx kontrol/PR/omfordeling - hvilket bør problematiseres.">>]

TOPOS_TO_DEFAULT_RATIOS_init ==
  S("Lovlighed") :> <<S("agency_act"), S("act_purpose")>> @@
  S("Gennemførlighed") :> <<S("agency_act"), S("scene_act")>> @@
  S("Nytte") :> <<S("purpose_act"), S("act_scene")>> @@
  S("Konsekvenser") :> <<S("act_scene"), S("scene_act")>> @@
  S("Nødvendighed") :> <<S("scene_act"), S("purpose_act")>> @@
  S("Retfærdighed") :> <<S("agent_act"), S("act_agent")>> @@
  S("Ære") :> <<S("act_agent"), S("agent_act")>>

TOPOI_init ==
  <<S("Lovlighed"),
    S("Retfærdighed"),
    S("Nytte"),
    S("Nødvendighed"),
    S("Gennemførlighed"),
    S("Ære"),
    S("Konsekvenser")>>

(***************************************************************************)
(* Field constraints of LolRequest and default arguments                   *)
(***************************************************************************)
\* max_topoi: Field(ge=1, le=7)
MAX_TOPOI_LE == 7

\* ratios_per_topos: Field(ge=1, le=4)
RATIOS_PER_TOPOS_LE == 4

\* _format_legal_sources(..., max_items: int = 3)
DEFAULT_MAX_ITEMS == 3

RatioMode == {"off", "light", "full"}

\* class Argument(BaseModel)
Argument(topos, argument, suggestions, ratio_id, ratio) ==
  [topos |-> topos, argument |-> argument, suggestions |-> suggestions,
   ratio_id |-> ratio_id, ratio |-> ratio]

\* class LolResponse(BaseModel)
LolResponse(claim, language, for_arguments, against) ==
  [claim |-> claim, language |-> language,
   for_arguments |-> for_arguments, against |-> against]

(***************************************************************************)
(* Helpers                                                                 *)
(***************************************************************************)
NO_LEGAL_SOURCES ==
  <<"-- (Mangler konkret lovhenvisning: angiv relevante love/rammer i 'legal_sources'.)">>

\* [s.strip() for s in legal_sources if s and s.strip()]
RECURSIVE stripped_nonblank(_)
stripped_nonblank(xs) ==
  IF xs = <<>> THEN <<>>
  ELSE IF Head(xs) # <<>> /\ strip(Head(xs)) # <<>>
       THEN <<strip(Head(xs))>> \o stripped_nonblank(Tail(xs))
       ELSE stripped_nonblank(Tail(xs))

\* variant: the list is cut to max_items before the blank entries are dropped
_format_legal_sources_cut_first(legal_sources, max_items) ==
  IF legal_sources = None \/ legal_sources[1] = <<>>
  THEN NO_LEGAL_SOURCES
  ELSE LET picked == stripped_nonblank(Slice(legal_sources[1], max_items))
       IN IF picked = <<>> THEN NO_LEGAL_SOURCES ELSE join(<<"; ">>, picked)

_format_legal_sources(legal_sources, max_items) ==
  IF legal_sources = None \/ legal_sources[1] = <<>>
  THEN NO_LEGAL_SOURCES
  ELSE LET picked == Slice(stripped_nonblank(legal_sources[1]), max_items)
       IN IF picked = <<>> THEN NO_LEGAL_SOURCES ELSE join(<<"; ">>, picked)

\* for r in requested: rid = (r or "").strip(); append when known and new
RECURSIVE normalize_loop(_, _)
normalize_loop(requested, out) ==
  IF requested = <<>> THEN out
  ELSE LET r == Head(requested)
           rid == strip(IF r = None THEN <<>> ELSE r[1])
       IN normalize_loop(
            Tail(requested),
            IF rid \in DOMAIN RATIO_BANK /\ ~InList(rid, out)
            THEN Append(out, rid)
            ELSE out)

\* variant: the entries are not trimmed before the lookup
RECURSIVE normalize_loop_no_strip(_, _)
normalize_loop_no_strip(requested, out) ==
  IF requested = <<>> THEN out
  ELSE LET r == Head(requested)
           rid == IF r = None THEN <<>> ELSE r[1]
       IN normalize_loop_no_strip(
            Tail(requested),
            IF rid \in DOMAIN RATIO_BANK /\ ~InList(rid, out)
            THEN Append(out, rid)
            ELSE out)

_normalize_ratio_ids_no_strip(requested) ==
  IF requested = None \/ requested[1] = <<>>
  THEN <<>>
  ELSE normalize_loop_no_strip(requested[1], <<>>)

_normalize_ratio_ids(requested) ==
  IF requested = None \/ requested[1] = <<>>
  THEN <<>>
  ELSE normalize_loop(requested[1], <<>>)

\* for rid in ids: if rid in RATIO_BANK and rid not in pool: pool.append(rid)
RECURSIVE fill_pool(_, _)
fill_pool(ids, pool) ==
  IF ids = <<>> THEN pool
  ELSE fill_pool(
         Tail(ids),
         IF Head(ids) \in DOMAIN RATIO_BANK /\ ~InList(Head(ids), pool)
         THEN Append(pool, Head(ids))
         ELSE pool)

\* variant: the ids are not checked against RATIO_BANK when the pool is filled
RECURSIVE fill_pool_unchecked(_, _)
fill_pool_unchecked(ids, pool) ==
  IF ids = <<>> THEN pool
  ELSE fill_pool_unchecked(
         Tail(ids),
         IF ~InList(Head(ids), pool) THEN Append(pool, Head(ids)) ELSE pool)

_pick_ratios_unchecked(topos, ratio_mode, ratios_per_topos, requested_ratio_ids) ==
  IF ratio_mode = "off" THEN <<>>
  ELSE LET defaults == IF topos \in DOMAIN TOPOS_TO_DEFAULT_RATIOS
                       THEN TOPOS_TO_DEFAULT_RATIOS[topos]
                       ELSE <<S("scene_act")>>
           pool == fill_pool_unchecked(defaults,
                                       fill_pool_unchecked(requested_ratio_ids, <<>>))
       IN IF ratio_mode = "light"
          THEN Slice(pool, 1)
          ELSE Slice(pool, ratios_per_topos)

\* variant: the defaults are never added to the pool
_pick_ratios_no_defaults(topos, ratio_mode, ratios_per_topos, requested_ratio_ids) ==
  IF ratio_mode = "off" THEN <<>>
  ELSE LET pool == fill_pool(requested_ratio_ids, <<>>)
       IN IF ratio_mode = "light"
          THEN Slice(pool, 1)
          ELSE Slice(pool, ratios_per_topos)

\* variant: the defaults come first in the pool, the requested ids after them
_pick_ratios_defaults_first(topos, ratio_mode, ratios_per_topos, requested_ratio_ids) ==
  IF ratio_mode = "off" THEN <<>>
  ELSE LET defaults == IF topos \in DOMAIN TOPOS_TO_DEFAULT_RATIOS
                       THEN TOPOS_TO_DEFAULT_RATIOS[topos]
                       ELSE <<S("scene_act")>>
           pool == fill_pool(requested_ratio_ids, fill_pool(defaults, <<>>))
       IN IF ratio_mode = "light"
          THEN Slice(pool, 1)
          ELSE Slice(pool, ratios_per_topos)

\* variant: "full" returns the whole pool, the cap is not applied
_pick_ratios_no_cap(topos, ratio_mode, ratios_per_topos, requested_ratio_ids) ==
  IF ratio_mode = "off" THEN <<>>
  ELSE LET defaults == IF topos \in DOMAIN TOPOS_TO_DEFAULT_RATIOS
                       THEN TOPOS_TO_DEFAULT_RATIOS[topos]
                       ELSE <<S("scene_act")>>
           pool == fill_pool(defaults, fill_pool(requested_ratio_ids, <<>>))
       IN IF ratio_mode = "light" THEN Slice(pool, 1) ELSE pool

_pick_ratios_for_topos(topos, ratio_mode, ratios_per_topos, requested_ratio_ids) ==
  IF ratio_mode = "off" THEN <<>>
  ELSE LET defaults == IF topos \in DOMAIN TOPOS_TO_DEFAULT_RATIOS
                       THEN TOPOS_TO_DEFAULT_RATIOS[topos]
                       ELSE <<S("scene_act")>>
           pool == fill_pool(defaults, fill_pool(requested_ratio_ids, <<>>))
       IN IF ratio_mode = "light"
          THEN Slice(pool, 1)
          ELSE Slice(pool, ratios_per_topos)

scene_hint(topos, sources_txt) ==
  CASE topos = S("Lovlighed") ->
         <<"retlige rammer og kompetencekrav (">>
         \o sources_txt
         \o <<")">>
    [] topos = S("Gennemførlighed") ->
         <<"implementeringskrav, institutioner og ressourcer (">>
         \o sources_txt
         \o <<")">>
    [] topos = S("Nytte") ->
         <<"samfundsøkonomi, incitamenter og fordelingsvirkninger">>
    [] topos = S("Konsekvenser") ->
         <<"risici, bivirkninger og second-order effects">>
    [] topos = S("Nødvendighed") ->
         <<"tidspres, uomgængelige vilkår og handlingspres">>
    [] topos = S("Retfærdighed") ->
         <<"byrdefordeling, ligheds- og rimelighedsnormer">>
    [] topos = S("Ære") ->
         <<"troværdighed, identitet og normer i offentligheden">>
    [] OTHER -> <<"den relevante kontekst">>

purpose_hint(topos) ==
  CASE topos = S("Nytte") ->
         <<"størst mulig gavn for flest mulige">>
    [] topos = S("Konsekvenser") ->
         <<"minimering af skade og maksimering af positive følgevirkninger">>
    [] topos = S("Nødvendighed") ->
         <<"at undgå værre følger under de givne vilkår">>
    [] topos = S("Retfærdighed") ->
         <<"en mere rimelig fordeling af goder og byrder">>
    [] topos = S("Ære") ->
         <<"at styrke integritet og moralsk autoritet">>
    [] topos = S("Lovlighed") ->
         <<"at sikre legitim hjemmel og retsstatlighed">>
    [] topos = S("Gennemførlighed") ->
         <<"at realisere intentionen i praksis">>
    [] OTHER -> <<"at realisere et legitimt mål">>

base_for_text(topos, claim, sources_txt) ==
  CASE topos = S("Lovlighed") ->
         <<"Ud fra lovlighedstopos kan man FOR påstanden '">>
         \o claim
         \o <<"' hævde, at den kan hjemles eller forankres i følgende konkrete lovkilder/rammer: ">>
         \o sources_txt
         \o <<". Argumentet styrkes ved at udpege præcis hjemmel (lov/§/artikel) og forklare, hvordan den muliggør tiltaget.">>
    [] topos = S("Gennemførlighed") ->
         <<"Ud fra gennemførlighedstopos kan man FOR påstanden '">>
         \o claim
         \o <<"' hævde, at den er implementerbar gennem konkrete juridiske instrumenter og processer, fx via: ">>
         \o sources_txt
         \o <<". Argumentet styrkes ved at skitsere, *hvilken* lov-/regelændring eller *hvilken* administrativ procedure der faktisk skal gennemføres (trinvis).">>
    [] topos = S("Retfærdighed") ->
         <<"FOR påstanden '">>
         \o claim
         \o <<"' kan man med retfærdighedstopos hævde, at den bidrager til en mere rimelig og fair fordeling af byrder og goder.">>
    [] topos = S("Nytte") ->
         <<"Ud fra nyttetopos kan man FOR påstanden '">>
         \o claim
         \o <<"' hævde, at den samlet set skaber størst mulig gavn for flest mulige.">>
    [] topos = S("Nødvendighed") ->
         <<"FOR påstanden '">>
         \o claim
         \o <<"' kan man fra nødvendighedstopos hævde, at der ikke findes realistiske alternativer, hvis man vil undgå værre følger.">>
    [] topos = S("Ære") ->
         <<"FOR påstanden '">>
         \o claim
         \o <<"' kan man ud fra ærestopos hævde, at den styrker vores omdømme, integritet eller moralske autoritet.">>
    [] topos = S("Konsekvenser") ->
         <<"FOR påstanden '">>
         \o claim
         \o <<"' kan man fra konsekvenstopos hævde, at dens positive følgevirkninger (direkte og indirekte) vejer tungt.">>
    [] OTHER ->
         <<"FOR påstanden '">>
         \o claim
         \o <<"' kan der ud fra '">>
         \o topos
         \o <<"'-topos formuleres generelle fordele.">>

base_against_text(topos, claim, sources_txt) ==
  CASE topos = S("Lovlighed") ->
         <<"IMOD påstanden '">>
         \o claim
         \o <<"' kan man ud fra lovlighedstopos hævde, at den kolliderer med konkrete retsregler, rettigheder eller kompetenceregler, fx i: ">>
         \o sources_txt
         \o <<". Modargumentet styrkes ved at pege på den præcise regel (lov/§/artikel) og den retlige konflikt (hjemmelsmangel, proportionalitet, lighedsgrundsætning, mv.).">>
    [] topos = S("Gennemførlighed") ->
         <<"IMOD påstanden '">>
         \o claim
         \o <<"' kan man hævde, at den i praksis er vanskelig at gennemføre, fordi den kræver ændringer i konkret lovgivning, tværmyndighedskoordination eller administrative procedurer, fx relateret til: ">>
         \o sources_txt
         \o <<". Modargumentet styrkes ved at pege på flaskehalse i lovproces/forvaltning/tilsyn/IT.">>
    [] topos = S("Retfærdighed") ->
         <<"IMOD påstanden '">>
         \o claim
         \o <<"' kan man hævde, at den skaber eller forværrer uretfærdige forskelle mellem grupper eller individer.">>
    [] topos = S("Nytte") ->
         <<"IMOD påstanden '">>
         \o claim
         \o <<"' kan man med nyttetopos hævde, at de samlede gevinster er begrænsede eller opvejes af betydelige omkostninger.">>
    [] topos = S("Nødvendighed") ->
         <<"IMOD påstanden '">>
         \o claim
         \o <<"' kan man hævde, at nødvendighed påberåbes for hurtigt, og at mulige alternativer eller mellemveje overses.">>
    [] topos = S("Ære") ->
         <<"IMOD påstanden '">>
         \o claim
         \o <<"' kan man hævde, at den skader vores troværdighed, værdighed eller selvforståelse som fællesskab.">>
    [] topos = S("Konsekvenser") ->
         <<"IMOD påstanden '">>
         \o claim
         \o <<"' kan man hævde, at dens negative følgevirkninger (bivirkninger, utilsigtede effekter) er alvorlige.">>
    [] OTHER ->
         <<"IMOD påstanden '">>
         \o claim
         \o <<"' kan der ud fra '">>
         \o topos
         \o <<"'-topos formuleres generelle ulemper.">>

for_suggestions(topos) ==
  CASE topos = S("Lovlighed") ->
         <<S("Angiv *konkret hjemmel*: lov + paragraf / EU-forordning + artikel / bekendtgørelse + §."),
           S("Angiv *kompetence*: hvilken myndighed har hjemlen, og via hvilken bestemmelse?"),
           S("Angiv *praksis*: relevante afgørelser/forarbejder/vejledninger (hvis kendt).")>>
    [] topos = S("Gennemførlighed") ->
         <<S("Angiv *implementeringsvej*: lovforslag, bekendtgørelse, cirkulære, vejledning, kontrakt, mv."),
           S("Angiv *myndighed + proces*: hvem udmønter, og hvilke formkrav gælder (høring, ikrafttræden, tilsyn)?"),
           S("Angiv *compliance*: hvordan håndhæves/reguleres det (tilsyn, sanktioner, rapportering)?")>>
    [] topos = S("Retfærdighed") ->
         <<S("Vis hvem der vinder retfærdighed ved tiltaget."),
           S("Brug fordelingsprincipper (lighed, behov, fortjeneste)."),
           S("Inddrag eksempler hvor lignende tiltag har virket retfærdigt.")>>
    [] topos = S("Nytte") ->
         <<S("Opgør gevinster i tal eller konkrete forbedringer."),
           S("Kobl til samfundsøkonomi, trivsel eller effektivitet."),
           S("Vis langsigtede nytteeffekter frem for kun kortsigtede.")>>
    [] topos = S("Nødvendighed") ->
         <<S("Beskriv hvilke problemer der ellers vil opstå."),
           S("Peg på tidspres, udefrakommende krav eller uomgængelige vilkår."),
           S("Vis hvorfor alternativer realistisk set er lukkede.")>>
    [] topos = S("Ære") ->
         <<S("Kobl til identitet (nation, institution, profession)."),
           S("Vis hvordan tiltaget signalerer ansvarlighed eller mod."),
           S("Brug eksempler på, at omdømme har haft konkret betydning.")>>
    [] topos = S("Konsekvenser") ->
         <<S("Skeln mellem kortsigtede og langsigtede konsekvenser."),
           S("Brug scenarier eller fremskrivninger."),
           S("Vis, hvem der vinder og taber på sigt.")>>
    [] OTHER ->
         <<S("Uddyb topos nærmere."),
           S("Brug konkrete eksempler.")>>

against_suggestions(topos) ==
  CASE topos = S("Lovlighed") ->
         <<S("Test for *hjemmelsmangel*: kræver tiltaget særskilt lovhjemmel?"),
           S("Peg på *rettighedskonflikt*: fx grundrettigheder, databeskyttelse, ligebehandling, mv."),
           S("Peg på *procedureregler*: høring, proportionalitet, begrundelseskrav, klageadgang, mv.")>>
    [] topos = S("Gennemførlighed") ->
         <<S("Peg på *lovteknisk kompleksitet*: mange love, krydshenvisninger, EU-retlige bindinger, mv."),
           S("Peg på *administrativ byrde*: data, kontrol, klagesager, ressourcebehov i myndigheder/aktører."),
           S("Peg på *håndhævelse*: risiko for omgåelse, manglende sanktionsmuligheder, bevisproblemer, mv.")>>
    [] topos = S("Retfærdighed") ->
         <<S("Peg på grupper, der stilles ringere uden god begrundelse."),
           S("Sammenlign med idealer om lighed og ikke-diskrimination."),
           S("Brug cases, hvor reformer opleves som uretfærdige.")>>
    [] topos = S("Nytte") ->
         <<S("Fremhæv skjulte eller langsigtede omkostninger."),
           S("Vis hvordan enkelte grupper betaler prisen for andres nytte."),
           S("Sammenlign med alternative tiltag med større nytte.")>>
    [] topos = S("Nødvendighed") ->
         <<S("Identificér oversete alternativer eller kompromisser."),
           S("Problematisér brugen af 'der er ikke noget valg'-retorik."),
           S("Brug eksempler på, at lignende situationer er løst anderledes.")>>
    [] topos = S("Ære") ->
         <<S("Peg på risiko for at fremstå hyklerisk eller utroværdig."),
           S("Kobl til tidligere brud på idealer og løfter."),
           S("Vis hvordan tiltaget strider mod udmeldte værdier.")>>
    [] topos = S("Konsekvenser") ->
         <<S("Fremhæv risici og usikkerhed."),
           S("Beskriv worst case-scenarier uden at overdrive."),
           S("Vis hvordan små ændringer kan give store negative effekter.")>>
    [] OTHER ->
         <<S("Uddyb topos nærmere."),
           S("Brug konkrete eksempler.")>>

\* variant: the scene hint is always the one of "Lovlighed"
_ratio_text_lovlighed_hint(ratio_id, side, claim, topos, legal_sources) ==
  LET sources_txt == _format_legal_sources(legal_sources, DEFAULT_MAX_ITEMS)
      spec == RATIO_BANK[ratio_id]
      template == IF side = "for" THEN spec.for ELSE spec.against
  IN format(template,
            "{claim}" :> claim
            @@ "{scene_hint}" :> scene_hint(S("Lovlighed"), sources_txt)
            @@ "{purpose_hint}" :> purpose_hint(topos)
            @@ "{topos}" :> topos
            @@ "{legal_sources}" :> sources_txt)

_ratio_text(ratio_id, side, claim, topos, legal_sources) ==
  LET sources_txt == _format_legal_sources(legal_sources, DEFAULT_MAX_ITEMS)
      spec == RATIO_BANK[ratio_id]
      template == IF side = "for" THEN spec.for ELSE spec.against
  IN format(template,
            "{claim}" :> claim
            @@ "{scene_hint}" :> scene_hint(topos, sources_txt)
            @@ "{purpose_hint}" :> purpose_hint(topos)
            @@ "{topos}" :> topos
            @@ "{legal_sources}" :> sources_txt)

(***************************************************************************)
(* generate_arguments_for_topos and its closure _wrap                      *)
(***************************************************************************)
\* One lens variant of one side, as both the "light" branch and the body of
\* the "full" loop build it.
\* variant: the lens text of the "for" side is used on both sides
lens_argument_for_text_only(rid, side, topos, claim, legal_sources, base_text, suggestions) ==
  LET rlabel == RATIO_BANK[rid].label
      ratio_txt == _ratio_text(rid, "for", claim, topos, legal_sources)
  IN Argument(topos,
              base_text \o <<"\n\nRatio-linse: ">> \o rlabel \o <<"\n">> \o ratio_txt,
              suggestions, Some(rid), Some(rlabel))

lens_argument(rid, side, topos, claim, legal_sources, base_text, suggestions) ==
  LET rlabel == RATIO_BANK[rid].label
      ratio_txt == _ratio_text(rid, side, claim, topos, legal_sources)
  IN Argument(topos,
              base_text \o <<"\n\nRatio-linse: ">> \o rlabel \o <<"\n">> \o ratio_txt,
              suggestions, Some(rid), Some(rlabel))

\* for rid in chosen_ratios: ..._args.append(Argument(...))
RECURSIVE lens_arguments(_, _, _, _, _, _, _)
lens_arguments(chosen_ratios, side, topos, claim, legal_sources, base_text, suggestions) ==
  IF chosen_ratios = <<>> THEN <<>>
  ELSE <<lens_argument(Head(chosen_ratios), side, topos, claim, legal_sources,
                       base_text, suggestions)>>
       \o lens_arguments(Tail(chosen_ratios), side, topos, claim, legal_sources,
                         base_text, suggestions)

\* _wrap closes over topos, claim, legal_sources, ratio_mode and chosen_ratios;
\* it returns the pair (for-list, against-list).
\* variant: the plain branch is missing, an empty lens list yields no argument
_wrap_no_plain_branch(topos, claim, legal_sources, ratio_mode, chosen_ratios, base_for, base_against, for_sugg, against_sugg) ==
  IF ratio_mode = "light"
  THEN << <<lens_argument(chosen_ratios[1], "for", topos, claim, legal_sources,
                          base_for, for_sugg)>>,
          <<lens_argument(chosen_ratios[1], "against", topos, claim, legal_sources,
                          base_against, against_sugg)>> >>
  ELSE << lens_arguments(chosen_ratios, "for", topos, claim, legal_sources,
                         base_for, for_sugg),
          lens_arguments(chosen_ratios, "against", topos, claim, legal_sources,
                         base_against, against_sugg) >>

\* variant: in "full" mode the against-argument is appended after the loop,
\* once, for the last lens only
_wrap_against_after_loop(topos, claim, legal_sources, ratio_mode, chosen_ratios, base_for, base_against, for_sugg, against_sugg) ==
  IF ratio_mode = "off" \/ chosen_ratios = <<>>
  THEN << <<Argument(topos, base_for, for_sugg, None, None)>>,
          <<Argument(topos, base_against, against_sugg, None, None)>> >>
  ELSE IF ratio_mode = "light"
  THEN << <<lens_argument(chosen_ratios[1], "for", topos, claim, legal_sources,
                          base_for, for_sugg)>>,
          <<lens_argument(chosen_ratios[1], "against", topos, claim, legal_sources,
                          base_against, against_sugg)>> >>
  ELSE << lens_arguments(chosen_ratios, "for", topos, claim, legal_sources,
                         base_for, for_sugg),
          <<lens_argument(chosen_ratios[Len(chosen_ratios)], "against", topos, claim,
                          legal_sources, base_against, against_sugg)>> >>

_wrap(topos, claim, legal_sources, ratio_mode, chosen_ratios, base_for, base_against, for_sugg, against_sugg) ==
  IF ratio_mode = "off" \/ chosen_ratios = <<>>
  THEN << <<Argument(topos, base_for, for_sugg, None, None)>>,
          <<Argument(topos, base_against, against_sugg, None, None)>> >>
  ELSE IF ratio_mode = "light"
  THEN << <<lens_argument(chosen_ratios[1], "for", topos, claim, legal_sources,
                          base_for, for_sugg)>>,
          <<lens_argument(chosen_ratios[1], "against", topos, claim, legal_sources,
                          base_against, against_sugg)>> >>
  ELSE << lens_arguments(chosen_ratios, "for", topos, claim, legal_sources,
                         base_for, for_sugg),
          lens_arguments(chosen_ratios, "against", topos, claim, legal_sources,
                         base_against, against_sugg) >>

generate_arguments_for_topos(topos, claim, legal_sources, ratio_mode, ratios_per_topos, requested_ratio_ids) ==
  LET requested == IF requested_ratio_ids = None THEN <<>> ELSE requested_ratio_ids[1]
      chosen_ratios ==
        _pick_ratios_for_topos(topos, ratio_mode, ratios_per_topos, requested)
      sources_txt == _format_legal_sources(legal_sources, DEFAULT_MAX_ITEMS)
  IN _wrap(topos, claim, legal_sources, ratio_mode, chosen_ratios,
           base_for_text(topos, claim, sources_txt),
           base_against_text(topos, claim, sources_txt),
           for_suggestions(topos),
           against_suggestions(topos))

(***************************************************************************)
(* The endpoint                                                            *)
(***************************************************************************)
\* for t in selected_topoi: extend both lists with the topic's arguments
RECURSIVE topoi_loop(_, _, _, _, _)
topoi_loop(selected_topoi, req, requested_ratio_ids, for_arguments, against_arguments) ==
  IF selected_topoi = <<>>
  THEN <<for_arguments, against_arguments>>
  ELSE LET lists == generate_arguments_for_topos(
                      Head(selected_topoi), req.claim, req.legal_sources,
                      req.ratio_mode, req.ratios_per_topos,
                      Some(requested_ratio_ids))
       IN topoi_loop(Tail(selected_topoi), req, requested_ratio_ids,
                     for_arguments \o lists[1], against_arguments \o lists[2])

\* variant: every catalog topic is selected, max_topoi is ignored
lol_action_all_topoi(req) ==
  LET requested_ratio_ids == _normalize_ratio_ids(req.ratios)
      lists == topoi_loop(TOPOI, req, requested_ratio_ids, <<>>, <<>>)
  IN LolResponse(req.claim, req.language, lists[1], lists[2])

lol_action(req) ==
  LET selected_topoi == Slice(TOPOI, req.max_topoi)
      requested_ratio_ids == _normalize_ratio_ids(req.ratios)
      lists == topoi_loop(selected_topoi, req, requested_ratio_ids, <<>>, <<>>)
  IN LolResponse(req.claim, req.language, lists[1], lists[2])

(***************************************************************************)
(* Inputs                                                                  *)
(***************************************************************************)
\* longest `ratios` list of a request
MaxRatios == 2

\* all lists over E of length at most n
ListsUpTo(E, n) == UNION {[1..k -> E] : k \in 0..n}

RatioEntries ==
  {None, Some(<<" ", "agent_act", " ">>), Some(S("scene_act")),
   Some(S("act_purpose")), Some(S("bogus"))}

RatioLists == {None} \cup {Some(l) : l \in ListsUpTo(RatioEntries, MaxRatios)}

LegalLists ==
  {None, Some(<<>>), Some(<<S("Grundloven"), S(" ")>>),
   Some(<<<<" ", "GDPR", " ">>, S("A"), S("B"), S("C")>>)}

LolRequest(claim, language, max_topoi, legal_sources, ratio_mode, ratios_per_topos, ratios) ==
  [claim |-> claim, language |-> language, max_topoi |-> max_topoi,
   legal_sources |-> legal_sources, ratio_mode |-> ratio_mode,
   ratios_per_topos |-> ratios_per_topos, ratios |-> ratios]

Requests ==
  {LolRequest(S("X"), S("da"), n, ls, m, c, rs) :
     n \in 1..MAX_TOPOI_LE, ls \in LegalLists, m \in RatioMode,
     c \in 1..RATIOS_PER_TOPOS_LE, rs \in RatioLists}

(***************************************************************************)
(* State machine                                                           *)
(***************************************************************************)
\* variant: the lens catalog lacks its "act_purpose" entry
InitCatalogs_without_act_purpose ==
  /\ TOPOI = TOPOI_init
  /\ RATIO_BANK = [rid \in DOMAIN RATIO_BANK_init \ {S("act_purpose")} |->
                     RATIO_BANK_init[rid]]
  /\ TOPOS_TO_DEFAULT_RATIOS = TOPOS_TO_DEFAULT_RATIOS_init

InitCatalogs ==
  /\ TOPOI = TOPOI_init
  /\ RATIO_BANK = RATIO_BANK_init
  /\ TOPOS_TO_DEFAULT_RATIOS = TOPOS_TO_DEFAULT_RATIOS_init

\* one request has been received and validated; lol_action has not run yet
Init ==
  /\ InitCatalogs
  /\ pending \in {<<r>> : r \in Requests}
  /\ responses = <<None>>
  /\ call = None
  /\ result = None

\* variant: the pool is built in place on the catalog's default list, so the
\* requested ids stay in TOPOS_TO_DEFAULT_RATIOS after the call
LolAction_pool_aliases_defaults(i) ==
  /\ responses[i] = None
  /\ responses' = [responses EXCEPT ![i] = Some(lol_action(pending[i]))]
  /\ TOPOS_TO_DEFAULT_RATIOS' =
       [t \in DOMAIN TOPOS_TO_DEFAULT_RATIOS |->
          IF pending[i].ratio_mode # "off"
             /\ InList(t, Slice(TOPOI, pending[i].max_topoi))
          THEN fill_pool(_normalize_ratio_ids(pending[i].ratios),
                         TOPOS_TO_DEFAULT_RATIOS[t])
          ELSE TOPOS_TO_DEFAULT_RATIOS[t]]
  /\ UNCHANGED <<TOPOI, RATIO_BANK, pending, call, result>>

\* the endpoint handles request i
LolAction(i) ==
  /\ responses[i] = None
  /\ responses' = [responses EXCEPT ![i] = Some(lol_action(pending[i]))]
  /\ UNCHANGED <<TOPOI, RATIO_BANK, TOPOS_TO_DEFAULT_RATIOS, pending, call, result>>

Next == \E i \in DOMAIN pending : LolAction(i)

Spec == Init /\ [][Next]_vars

(***************************************************************************)
(* Two requests that differ at most in `ratios`, handled in either order   *)
(***************************************************************************)
\* longest `ratios` list of the two requests
MaxPairRatios == 2

PairRatioEntries ==
  {Some(<<>>), Some(S("bogus")), Some(S("agent_act")), Some(<<" ", "agent_act", " ">>)}

PairRatioLists ==
  {None} \cup {Some(l) : l \in ListsUpTo(PairRatioEntries, MaxPairRatios)}

PairBases ==
  {LolRequest(S("X"), S("da"), n, Some(<<S("Grundloven")>>), m, c, None) :
     n \in {2}, m \in RatioMode, c \in 1..RATIOS_PER_TOPOS_LE}

InitPair ==
  /\ InitCatalogs
  /\ pending \in {<<[b EXCEPT !.ratios = ra], [b EXCEPT !.ratios = rb]>> :
                    b \in PairBases, ra \in PairRatioLists, rb \in PairRatioLists}
  /\ responses = <<None, None>>
  /\ call = None
  /\ result = None

SpecPair == InitPair /\ [][Next]_vars

(***************************************************************************)
(* Two requests that differ at most in legal_sources                       *)
(***************************************************************************)
LegalPairRatios ==
  {None, Some(<<Some(S("act_purpose"))>>),
   Some(<<Some(S("agency_act")), Some(S("scene_act"))>>)}

LegalPairBases ==
  {LolRequest(S("X"), S("da"), n, None, m, c, rs) :
     n \in {1, 5, MAX_TOPOI_LE}, m \in RatioMode,
     c \in {1, 2, RATIOS_PER_TOPOS_LE}, rs \in LegalPairRatios}

InitLegalPair ==
  /\ InitCatalogs
  /\ pending \in {<<[b EXCEPT !.legal_sources = la], [b EXCEPT !.legal_sources = lb]>> :
                    b \in LegalPairBases, la \in LegalLists, lb \in LegalLists}
  /\ responses = <<None, None>>
  /\ call = None
  /\ result = None

SpecLegalPair == InitLegalPair /\ [][Next]_vars

(***************************************************************************)
(* Direct calls of _format_legal_sources                                   *)
(***************************************************************************)
\* longest legal_sources list handed to _format_legal_sources directly
MaxLegalSources == 5

LegalEntries ==
  {S("A"), S("B"), S("C"), S("D"), <<" ", "E", " ">>, S(" "), <<>>}

FormatInputs == {None} \cup {Some(l) : l \in ListsUpTo(LegalEntries, MaxLegalSources)}

\* a caller is about to format one list with the default max_items
InitFormat ==
  /\ InitCatalogs
  /\ pending = <<>>
  /\ responses = <<>>
  /\ call \in {Some([legal_sources |-> l, max_items |-> DEFAULT_MAX_ITEMS]) :
                 l \in FormatInputs}
  /\ result = None

FormatLegalSources ==
  /\ call # None
  /\ result = None
  /\ result' = Some(_format_legal_sources(call[1].legal_sources, call[1].max_items))
  /\ UNCHANGED <<TOPOI, RATIO_BANK, TOPOS_TO_DEFAULT_RATIOS, pending, responses, call>>

NextFormat == FormatLegalSources

SpecFormat == InitFormat /\ [][NextFormat]_vars

(***************************************************************************)
(* Direct calls of generate_arguments_for_topos, beside the endpoint       *)
(***************************************************************************)
\* longest requested_ratio_ids list handed to generate_arguments_for_topos
MaxDirectRatios == 2

\* topic identifiers a direct caller may pass: catalog topics and others
DirectTopoi ==
  {S("Lovlighed"), S("Nytte"), S("Sandhed"), S("lovlighed"), <<>>}

DirectRatioLists ==
  {None} \cup {Some(l) : l \in ListsUpTo({S("bogus"), S("agent_act"), S("purpose_act")},
                                         MaxDirectRatios)}

DirectCalls ==
  {[topos |-> t, claim |-> S("X"), legal_sources |-> ls, ratio_mode |-> m,
    ratios_per_topos |-> c, requested_ratio_ids |-> rs] :
     t \in DirectTopoi, ls \in {None, Some(<<S("Grundloven")>>)}, m \in RatioMode,
     c \in 1..RATIOS_PER_TOPOS_LE, rs \in DirectRatioLists}

DirectRequests ==
  {LolRequest(S("X"), S("da"), n, None, m, 2, None) :
     n \in 1..MAX_TOPOI_LE, m \in RatioMode}

\* one request waits for the endpoint, one caller is about to call the generator
InitGenerate ==
  /\ InitCatalogs
  /\ pending \in {<<r>> : r \in DirectRequests}
  /\ responses = <<None>>
  /\ call \in {Some(c) : c \in DirectCalls}
  /\ result = None

\* the subscriptions RATIO_BANK[rid] of _wrap and _ratio_text that raise KeyError
\* for the lens ids chosen for this call
key_errors(c) ==
  LET requested == IF c.requested_ratio_ids = None THEN <<>>
                   ELSE c.requested_ratio_ids[1]
      chosen == _pick_ratios_for_topos(c.topos, c.ratio_mode, c.ratios_per_topos,
                                       requested)
  IN {chosen[k] : k \in 1..Len(chosen)} \ DOMAIN RATIO_BANK

\* the call returns its pair of lists, or raises
GenerateArgumentsForTopos ==
  /\ call # None
  /\ result = None
  /\ result' =
       IF key_errors(call[1]) # {}
       THEN Some([raised |-> "KeyError", value |-> <<>>])
       ELSE Some([raised |-> "",
                  value |-> generate_arguments_for_topos(
                              call[1].topos, call[1].claim, call[1].legal_sources,
                              call[1].ratio_mode, call[1].ratios_per_topos,
                              call[1].requested_ratio_ids)])
  /\ UNCHANGED <<TOPOI, RATIO_BANK, TOPOS_TO_DEFAULT_RATIOS, pending, responses, call>>

NextGenerate ==
  \/ \E i \in DOMAIN pending : LolAction(i)
  \/ GenerateArgumentsForTopos

SpecGenerate == InitGenerate /\ [][NextGenerate]_vars

(***************************************************************************)
(* Reading a response                                                      *)
(***************************************************************************)
Handled(i) == responses[i] # None

Response(i) == responses[i][1]

\* the two argument lists of response i
Sides(i) == {Response(i).for_arguments, Response(i).against}

\* position of a topic in the canonical catalog (0: not a catalog topic)
CatalogIndex(t) ==
  IF \E k \in 1..Len(TOPOI_init) : TOPOI_init[k] = t
  THEN CHOOSE k \in 1..Len(TOPOI_init) : TOPOI_init[k] = t
  ELSE 0

FirstTopoi(n) == {TOPOI_init[k] : k \in 1..n}

\* the positions of list args that hold an argument of topic t
PositionsOf(args, t) == {k \in 1..Len(args) : args[k].topos = t}

\* the arguments of topic t in list args, in list order
ArgumentsOf(args, t) == SelectSeq(args, LAMBDA a : a.topos = t)

\* the lens ids of topic t in list args, in list order (None where absent)
RatioIdsOf(args, t) ==
  LET xs == ArgumentsOf(args, t) IN [k \in 1..Len(xs) |-> xs[k].ratio_id]

(***************************************************************************)
(* C1: for max_topoi = N in 1..7 the topics that appear in for_arguments   *)
(* and in against are exactly the first N entries of TOPOI, and in each    *)
(* list the arguments are grouped by topic in canonical order: an argument *)
(* of an earlier catalog topic never follows one of a later topic.         *)
(***************************************************************************)
C1_FirstNTopoiInOrder ==
  \A i \in DOMAIN pending : Handled(i) =>
    \A args \in Sides(i) :
      /\ {args[k].topos : k \in 1..Len(args)} = FirstTopoi(pending[i].max_topoi)
      /\ \A k, l \in 1..Len(args) :
           k < l => CatalogIndex(args[k].topos) <= CatalogIndex(args[l].topos)

\* a handled request for 3 topics in "full" mode, several arguments per topic
C1_Witness ==
  \E i \in DOMAIN pending :
    /\ Handled(i)
    /\ pending[i].max_topoi = 3
    /\ pending[i].ratio_mode = "full"
    /\ Len(Response(i).for_arguments) > 3
    /\ Len(Response(i).against) > 3

(***************************************************************************)
(* C2: with ratio_mode = "off", whatever ratios_per_topos and ratios are,  *)
(* the response holds exactly one FOR and one AGAINST argument per         *)
(* selected topic and every argument has ratio_id = None and ratio = None. *)
(***************************************************************************)
C2_OffOnePlainPairPerTopos ==
  \A i \in DOMAIN pending : Handled(i) /\ pending[i].ratio_mode = "off" =>
    \A args \in Sides(i) :
      /\ \A t \in FirstTopoi(pending[i].max_topoi) :
           Cardinality(PositionsOf(args, t)) = 1
      /\ Len(args) = pending[i].max_topoi
      /\ \A k \in 1..Len(args) : args[k].ratio_id = None /\ args[k].ratio = None

\* "off" mode handled for a request that names a valid lens id and cap 4
C2_Witness ==
  \E i \in DOMAIN pending :
    /\ Handled(i)
    /\ pending[i].ratio_mode = "off"
    /\ pending[i].ratios_per_topos = 4
    /\ pending[i].ratios = Some(<<Some(S("scene_act"))>>)
    /\ pending[i].max_topoi = 7

(***************************************************************************)
(* C3: with ratio_mode = "light", for every ratios_per_topos in 1..4 and   *)
(* every ratios list (empty, absent and all-unknown included), the         *)
(* response holds exactly one FOR and one AGAINST argument per selected    *)
(* topic, each with a non-empty ratio_id that is a key of RATIO_BANK.      *)
(***************************************************************************)
C3_LightOneLensPairPerTopos ==
  \A i \in DOMAIN pending : Handled(i) /\ pending[i].ratio_mode = "light" =>
    \A args \in Sides(i) :
      /\ \A t \in FirstTopoi(pending[i].max_topoi) :
           Cardinality(PositionsOf(args, t)) = 1
      /\ Len(args) = pending[i].max_topoi
      /\ \A k \in 1..Len(args) :
           /\ args[k].ratio_id # None
           /\ args[k].ratio_id[1] # <<>>
           /\ args[k].ratio_id[1] \in DOMAIN RATIO_BANK_init

\* "light" mode handled for all 7 topics with only an unknown lens id asked for
C3_Witness ==
  \E i \in DOMAIN pending :
    /\ Handled(i)
    /\ pending[i].ratio_mode = "light"
    /\ pending[i].max_topoi = 7
    /\ pending[i].ratios_per_topos = 4
    /\ pending[i].ratios = Some(<<Some(S("bogus"))>>)

\* the requested entries that are lens ids once trimmed
ValidRequested(req) ==
  IF req.ratios = None THEN {}
  ELSE {strip(e[1]) : e \in {req.ratios[1][k] : k \in 1..Len(req.ratios[1])} \ {None}}
         \cap DOMAIN RATIO_BANK_init

Applicable(req, t) ==
  ValidRequested(req)
    \cup {TOPOS_TO_DEFAULT_RATIOS_init[t][k] :
            k \in 1..Len(TOPOS_TO_DEFAULT_RATIOS_init[t])}

(***************************************************************************)
(* C4: with ratio_mode = "full" and ratios_per_topos = C in 1..4, every    *)
(* selected topic has k arguments in for_arguments and k in against with   *)
(* 1 <= k <= C, every one carries a ratio_id of RATIO_BANK, the ratio_ids  *)
(* of one topic on one side are pairwise distinct, and k is at most the    *)
(* number of distinct applicable lens ids (valid requested ids and the     *)
(* topic's defaults).                                                      *)
(***************************************************************************)
C4_FullBetweenOneAndCap ==
  \A i \in DOMAIN pending : Handled(i) /\ pending[i].ratio_mode = "full" =>
    \A t \in FirstTopoi(pending[i].max_topoi) :
      /\ Cardinality(PositionsOf(Response(i).for_arguments, t))
           = Cardinality(PositionsOf(Response(i).against, t))
      /\ \A args \in Sides(i) :
           LET ks == PositionsOf(args, t) IN
             /\ 1 <= Cardinality(ks)
             /\ Cardinality(ks) <= pending[i].ratios_per_topos
             /\ Cardinality(ks) <= Cardinality(Applicable(pending[i], t))
             /\ \A k \in ks :
                  args[k].ratio_id # None
                  /\ args[k].ratio_id[1] \in DOMAIN RATIO_BANK_init
             /\ \A k, l \in ks : k # l => args[k].ratio_id # args[l].ratio_id

\* "full" with cap 2 and two valid requested ids: the pool of 4 is cut to 2
C4_Witness ==
  \E i \in DOMAIN pending :
    /\ Handled(i)
    /\ pending[i].ratio_mode = "full"
    /\ pending[i].ratios_per_topos = 2
    /\ pending[i].max_topoi = 2
    /\ pending[i].ratios = Some(<<Some(S("scene_act")), Some(S("act_purpose"))>>)
    /\ Len(Response(i).for_arguments) = 4

(***************************************************************************)
(* The normalization of a requested lens list, as the claims state it:     *)
(* each entry trimmed, empty/None/unknown entries dropped, duplicates      *)
(* removed keeping the first occurrence.                                   *)
(***************************************************************************)
Trimmed(e) == IF e = None THEN <<>> ELSE strip(e[1])

RECURSIVE TrimmedKnown(_)
TrimmedKnown(l) ==
  IF l = <<>> THEN <<>>
  ELSE (IF Trimmed(Head(l)) \in DOMAIN RATIO_BANK_init
        THEN <<Trimmed(Head(l))>>
        ELSE <<>>) \o TrimmedKnown(Tail(l))

RECURSIVE KeepFirst(_)
KeepFirst(xs) ==
  IF xs = <<>> THEN <<>>
  ELSE <<Head(xs)>> \o KeepFirst(SelectSeq(Tail(xs), LAMBDA y : y # Head(xs)))

Normalization(ratios) ==
  IF ratios = None THEN <<>> ELSE KeepFirst(TrimmedKnown(ratios[1]))

\* the pool P of topic t: normalized requested ids, then the defaults not in it
Pool(req, t) ==
  LET n == Normalization(req.ratios)
  IN n \o SelectSeq(TOPOS_TO_DEFAULT_RATIOS_init[t], LAMBDA d : ~InList(d, n))

Min(a, b) == IF a < b THEN a ELSE b

(***************************************************************************)
(* C6: in every mode but "off" the lens ids chosen for a topic are a       *)
(* prefix of the pool P (normalized requested ids in the caller's order,   *)
(* then the topic's defaults not yet present, in default order): the first *)
(* element in "light" mode, the first min(C, |P|) in "full" mode with cap  *)
(* C.  So a valid requested id comes first for every topic, and with an    *)
(* empty or absent requested list "full" mode gives the first C defaults.  *)
(***************************************************************************)
C6_ChosenIsPoolPrefix ==
  \A i \in DOMAIN pending : Handled(i) /\ pending[i].ratio_mode # "off" =>
    \A t \in FirstTopoi(pending[i].max_topoi) : \A args \in Sides(i) :
      LET req == pending[i]
          P == Pool(req, t)
          n == IF req.ratio_mode = "light" THEN 1
               ELSE Min(req.ratios_per_topos, Len(P))
          chosen == RatioIdsOf(args, t)
      IN /\ Len(chosen) = n
         /\ \A k \in 1..n : chosen[k] = Some(P[k])
         /\ Normalization(req.ratios) # <<>>
              => chosen[1] = Some(Normalization(req.ratios)[1])
         /\ (req.ratio_mode = "full"
             /\ (req.ratios = None \/ req.ratios = Some(<<>>)))
              => /\ Len(chosen) = Min(req.ratios_per_topos,
                                      Len(TOPOS_TO_DEFAULT_RATIOS_init[t]))
                 /\ \A k \in 1..Len(chosen) :
                      chosen[k] = Some(TOPOS_TO_DEFAULT_RATIOS_init[t][k])

\* "full", cap 3, requested [" agent_act ", "scene_act"]: for Nødvendighed
\* (defaults scene_act, purpose_act) the chosen lenses mix both sources
C6_Witness ==
  \E i \in DOMAIN pending :
    /\ Handled(i)
    /\ pending[i].ratio_mode = "full"
    /\ pending[i].ratios_per_topos = 3
    /\ pending[i].ratios = Some(<<Some(<<" ", "agent_act", " ">>), Some(S("scene_act"))>>)
    /\ pending[i].max_topoi >= 4
    /\ RatioIdsOf(Response(i).for_arguments, S("Nødvendighed"))
         = <<Some(S("agent_act")), Some(S("scene_act")), Some(S("purpose_act"))>>

\* what "off" mode returns for topic t of request req: <<for-list, against-list>>
OffArguments(req, t) ==
  generate_arguments_for_topos(t, req.claim, req.legal_sources, "off",
                               req.ratios_per_topos, None)

(***************************************************************************)
(* C8: in "light" and "full" mode every returned Argument's text is the    *)
(* text "off" mode produces for the same topic, side, claim and legal      *)
(* sources, then a blank line, a heading line with the lens label, and the *)
(* lens text rendered for that lens id and side; its suggestions are those *)
(* of "off" mode; its ratio is RATIO_BANK[ratio_id]["label"].  In every    *)
(* mode ratio_id and ratio are both set or both absent.                    *)
(***************************************************************************)
C8_LensTextExtendsBaseText ==
  \A i \in DOMAIN pending : Handled(i) =>
    \A side \in {"for", "against"} :
      LET req == pending[i]
          args == IF side = "for" THEN Response(i).for_arguments
                  ELSE Response(i).against
      IN \A k \in 1..Len(args) :
           LET a == args[k]
               off == OffArguments(req, a.topos)[IF side = "for" THEN 1 ELSE 2][1]
           IN /\ (a.ratio_id = None) <=> (a.ratio = None)
              /\ req.ratio_mode # "off" =>
                   /\ a.ratio_id # None
                   /\ a.ratio = Some(RATIO_BANK_init[a.ratio_id[1]].label)
                   /\ a.suggestions = off.suggestions
                   /\ a.argument
                        = off.argument
                          \o <<"\n\nRatio-linse: ">>
                          \o RATIO_BANK_init[a.ratio_id[1]].label
                          \o <<"\n">>
                          \o _ratio_text(a.ratio_id[1], side, req.claim, a.topos,
                                         req.legal_sources)

\* an AGAINST argument of Gennemførlighed under the scene_act lens with legal
\* sources given: base text and lens text both embed the formatted sources
C8_Witness ==
  \E i \in DOMAIN pending :
    /\ Handled(i)
    /\ pending[i].ratio_mode = "full"
    /\ pending[i].legal_sources = Some(<<S("Grundloven"), S(" ")>>)
    /\ \E k \in 1..Len(Response(i).against) :
         /\ Response(i).against[k].topos = S("Gennemførlighed")
         /\ Response(i).against[k].ratio_id = Some(S("scene_act"))
         /\ Len(Response(i).against[k].argument) > 10

\* the entries of list l that are non-empty after trimming, trimmed, in order
RECURSIVE NonBlankTrimmed(_)
NonBlankTrimmed(l) ==
  IF l = <<>> THEN <<>>
  ELSE (IF strip(Head(l)) = <<>> THEN <<>> ELSE <<strip(Head(l))>>)
       \o NonBlankTrimmed(Tail(l))

FirstThreeJoined(l) ==
  LET nb == NonBlankTrimmed(l) IN join(<<"; ">>, SubSeq(nb, 1, Min(3, Len(nb))))

\* no token of a 4th or later non-blank entry occurs in text, unless one of
\* the first three entries holds it too
LaterEntriesAbsent(l, text) ==
  LET nb == NonBlankTrimmed(l)
      early == UNION {{nb[j][p] : p \in 1..Len(nb[j])} : j \in 1..Min(3, Len(nb))}
  IN \A k \in 4..Len(nb) : \A p \in 1..Len(nb[k]) :
       nb[k][p] \notin early => \A q \in 1..Len(text) : text[q] # nb[k][p]

(***************************************************************************)
(* C7: _format_legal_sources returns the fixed placeholder when the list   *)
(* is absent or empty; otherwise it returns the first 3 entries that are   *)
(* non-empty after trimming (blank entries are discarded before counting), *)
(* each trimmed, in input order, joined by "; ".  For ["A","B","C","D"]    *)
(* the result is "A; B; C"; a 4th or later non-blank entry never appears.  *)
(* Amended: the placeholder is also returned when every entry is blank.    *)
(***************************************************************************)
C7_FormatLegalSources ==
  call # None /\ result # None =>
    LET ls == call[1].legal_sources IN
      /\ result[1] = IF ls = None \/ NonBlankTrimmed(ls[1]) = <<>>
                     THEN NO_LEGAL_SOURCES
                     ELSE FirstThreeJoined(ls[1])
      /\ ls # None => LaterEntriesAbsent(ls[1], result[1])
      /\ ls = Some(<<S("A"), S("B"), S("C"), S("D")>>)
           => result[1] = <<"A", "; ", "B", "; ", "C">>

\* C7 as stated: the placeholder exactly when the list is absent or empty, the
\* joined entries for every other list
C7_AsStated ==
  call # None /\ result # None =>
    LET ls == call[1].legal_sources IN
      result[1] = IF ls = None \/ ls[1] = <<>>
                  THEN NO_LEGAL_SOURCES
                  ELSE FirstThreeJoined(ls[1])

\* a list whose 1st entry is blank and that has 4 non-blank entries after it was
\* formatted: the blank is skipped, the 4th non-blank entry dropped
C7_Witness ==
  /\ call = Some([legal_sources |-> Some(<<S(" "), <<" ", "E", " ">>, S("B"), S("C"), S("D")>>),
                  max_items |-> DEFAULT_MAX_ITEMS])
  /\ result = Some(<<"E", "; ", "B", "; ", "C">>)

(***************************************************************************)
(* C5: the response depends on the requested lens list only through its    *)
(* normalization: two requests that differ only in `ratios` and whose      *)
(* lists normalize to the same sequence get identical responses, in every  *)
(* lens mode; in particular entries that are not keys of RATIO_BANK,       *)
(* anywhere in the list, change nothing.                                   *)
(***************************************************************************)
C5_SameNormalizationSameResponse ==
  \A i, j \in DOMAIN pending :
    /\ Handled(i) /\ Handled(j)
    /\ [pending[i] EXCEPT !.ratios = None] = [pending[j] EXCEPT !.ratios = None]
    /\ Normalization(pending[i].ratios) = Normalization(pending[j].ratios)
    => Response(i) = Response(j)

\* both handled in "full" mode: one asked [" agent_act "], the other
\* ["bogus", "agent_act"]; the responses carry the agent_act lens
C5_Witness ==
  /\ DOMAIN pending = {1, 2}
  /\ Handled(1) /\ Handled(2)
  /\ pending[1].ratio_mode = "full"
  /\ pending[1].ratios = Some(<<Some(<<" ", "agent_act", " ">>)>>)
  /\ pending[2].ratios = Some(<<Some(S("bogus")), Some(S("agent_act"))>>)
  /\ Response(1).for_arguments[1].ratio_id = Some(S("agent_act"))

LensEntriesComplete ==
  \A rid \in DOMAIN RATIO_BANK :
    /\ DOMAIN RATIO_BANK[rid] = {"label", "for", "against"}
    /\ RATIO_BANK[rid].label # <<>>
    /\ RATIO_BANK[rid].for # <<>>
    /\ RATIO_BANK[rid].against # <<>>

\* every lens id of a returned Argument is a key of the catalog
ReturnedLensIdsInCatalog ==
  \A i \in DOMAIN pending : Handled(i) =>
    \A args \in Sides(i) : \A k \in 1..Len(args) :
      args[k].ratio_id # None => args[k].ratio_id[1] \in DOMAIN RATIO_BANK

DirectDone == call # None /\ result # None

\* t is none of the 7 entries of TOPOI
UnknownTopos(t) == \A k \in 1..Len(TOPOI_init) : TOPOI_init[k] # t

\* the generic fallback text of a side for a claim and a raw topic identifier
FallbackText(side, claim, topos) ==
  IF side = "for"
  THEN <<"FOR påstanden '">> \o claim \o <<"' kan der ud fra '">> \o topos
       \o <<"'-topos formuleres generelle fordele.">>
  ELSE <<"IMOD påstanden '">> \o claim \o <<"' kan der ud fra '">> \o topos
       \o <<"'-topos formuleres generelle ulemper.">>

GenericSuggestions == <<S("Uddyb topos nærmere."), S("Brug konkrete eksempler.")>>

\* the template of lens rid for a side, rendered with the generic hints
GenericLensText(rid, side, claim) ==
  format(IF side = "for" THEN RATIO_BANK_init[rid].for ELSE RATIO_BANK_init[rid].against,
         "{claim}" :> claim
         @@ "{scene_hint}" :> <<"den relevante kontekst">>
         @@ "{purpose_hint}" :> <<"at realisere et legitimt mål">>)

\* no entry of the requested list is a key of RATIO_BANK
NoValidRequested(rs) ==
  rs = None \/ \A k \in 1..Len(rs[1]) : rs[1][k] \notin DOMAIN RATIO_BANK_init

\* text begins with the tokens of prefix
StartsWith(text, prefix) ==
  Len(text) >= Len(prefix) /\ SubSeq(text, 1, Len(prefix)) = prefix

(***************************************************************************)
(* C11: generate_arguments_for_topos called directly with a topic          *)
(* identifier that is not one of the 7 entries of TOPOI returns without    *)
(* raising in every lens mode; every returned Argument has topos equal to  *)
(* the raw identifier, text built from the generic fallback template and   *)
(* exactly the 2 generic suggestions; in "light"/"full" mode with no valid *)
(* requested lens id the only chosen lens is the fallback default          *)
(* "scene_act", rendered with the generic scene/purpose hints.  Through    *)
(* lol_action the fallback branch is never reached.                        *)
(***************************************************************************)
C11_UnknownToposFallsBack ==
  /\ DirectDone /\ UnknownTopos(call[1].topos) =>
       LET c == call[1] IN
         /\ result[1].raised = ""
         /\ \A side \in {"for", "against"} :
              LET args == result[1].value[IF side = "for" THEN 1 ELSE 2]
                  base == FallbackText(side, c.claim, c.topos)
              IN /\ Len(args) >= 1
                 /\ \A k \in 1..Len(args) :
                      /\ args[k].topos = c.topos
                      /\ args[k].suggestions = GenericSuggestions
                      /\ IF args[k].ratio_id = None
                         THEN args[k].argument = base
                         ELSE args[k].argument
                                = base \o <<"\n\nRatio-linse: ">>
                                  \o RATIO_BANK_init[args[k].ratio_id[1]].label
                                  \o <<"\n">>
                                  \o GenericLensText(args[k].ratio_id[1], side, c.claim)
                 /\ c.ratio_mode = "off"
                      => Len(args) = 1 /\ args[1].ratio_id = None
                 /\ c.ratio_mode # "off" /\ NoValidRequested(c.requested_ratio_ids)
                      => Len(args) = 1 /\ args[1].ratio_id = Some(S("scene_act"))
  /\ \A i \in DOMAIN pending : Handled(i) =>
       \A side \in {"for", "against"} :
         LET args == IF side = "for" THEN Response(i).for_arguments
                     ELSE Response(i).against
         IN \A k \in 1..Len(args) :
              /\ ~UnknownTopos(args[k].topos)
              /\ args[k].suggestions # GenericSuggestions
              /\ ~StartsWith(args[k].argument,
                             FallbackText(side, pending[i].claim, args[k].topos))

\* a direct "full" call for the unknown topic "Sandhed" with only an unknown
\* lens id requested has returned one scene_act argument per side, and the
\* endpoint has handled its request too
C11_Witness ==
  /\ DirectDone
  /\ call[1].topos = S("Sandhed")
  /\ call[1].ratio_mode = "full"
  /\ call[1].ratios_per_topos = 4
  /\ call[1].requested_ratio_ids = Some(<<S("bogus")>>)
  /\ result[1].raised = ""
  /\ Len(result[1].value[1]) = 1
  /\ result[1].value[1][1].ratio_id = Some(S("scene_act"))
  /\ result[1].value[2][1].topos = S("Sandhed")
  /\ \E i \in DOMAIN pending : Handled(i) /\ pending[i].max_topoi = 7

(***************************************************************************)
(* C12: in every response of lol_action, for_arguments and against have    *)
(* the same length, and at every index the two arguments agree on topos,   *)
(* ratio_id and ratio: the FOR and AGAINST lists are paired position by    *)
(* position by topic and lens.                                             *)
(***************************************************************************)
C12_ForAndAgainstPaired ==
  \A i \in DOMAIN pending : Handled(i) =>
    LET fors == Response(i).for_arguments
        againsts == Response(i).against
    IN /\ Len(fors) = Len(againsts)
       /\ \A k \in 1..Len(fors) :
            /\ k \in 1..Len(againsts)
            /\ fors[k].topos = againsts[k].topos
            /\ fors[k].ratio_id = againsts[k].ratio_id
            /\ fors[k].ratio = againsts[k].ratio

\* a handled "full" request over several topics whose response holds two
\* neighbouring arguments of one topic with different lenses
C12_Witness ==
  \E i \in DOMAIN pending :
    /\ Handled(i)
    /\ pending[i].ratio_mode = "full"
    /\ pending[i].max_topoi >= 2
    /\ Len(Response(i).for_arguments) > pending[i].max_topoi
    /\ \E k \in 1..(Len(Response(i).against) - 1) :
         /\ Response(i).against[k].topos = Response(i).against[k + 1].topos
         /\ Response(i).against[k].ratio_id # None
         /\ Response(i).against[k].ratio_id # Response(i).against[k + 1].ratio_id

\* the topics whose texts quote the legal sources
LegalTopoi == {S("Lovlighed"), S("Gennemførlighed")}

\* requests a and b are equal in every field but, possibly, legal_sources
SameButLegalSources(a, b) == [a EXCEPT !.legal_sources = b.legal_sources] = b

(***************************************************************************)
(* C13: legal_sources influences only the arguments of the topics          *)
(* Lovlighed and Gennemførlighed.  For two requests that differ only in    *)
(* legal_sources, both responses hold the same number of arguments in the  *)
(* same order with the same topics and lens ids, and every Argument of one *)
(* of the other five topics is identical (text, suggestions, ratio_id,     *)
(* ratio) in both responses, in every lens mode and for every chosen lens. *)
(***************************************************************************)
C13_LegalSourcesOnlyInLegalTopoi ==
  \A i \in DOMAIN pending : \A j \in DOMAIN pending :
    Handled(i) /\ Handled(j) /\ SameButLegalSources(pending[i], pending[j]) =>
      \A side \in {"for", "against"} :
        LET a == IF side = "for" THEN Response(i).for_arguments ELSE Response(i).against
            b == IF side = "for" THEN Response(j).for_arguments ELSE Response(j).against
        IN /\ Len(a) = Len(b)
           /\ \A k \in 1..Len(a) :
                /\ k \in 1..Len(b)
                /\ a[k].topos = b[k].topos
                /\ a[k].ratio_id = b[k].ratio_id
                /\ a[k].topos \notin LegalTopoi => a[k] = b[k]

\* two handled "full" requests over all topics, one without legal sources and
\* one with "Grundloven": the Lovlighed arguments differ, a Nytte argument
\* with a lens is the same in both
C13_Witness ==
  /\ DOMAIN pending = {1, 2}
  /\ Handled(1) /\ Handled(2)
  /\ SameButLegalSources(pending[1], pending[2])
  /\ pending[1].legal_sources = None
  /\ pending[2].legal_sources = Some(<<S("Grundloven"), S(" ")>>)
  /\ pending[1].ratio_mode = "full"
  /\ pending[1].max_topoi = 7
  /\ \E k \in 1..Len(Response(1).for_arguments) :
       /\ Response(1).for_arguments[k].topos = S("Lovlighed")
       /\ Response(1).for_arguments[k] # Response(2).for_arguments[k]
  /\ \E k \in 1..Len(Response(1).against) :
       /\ Response(1).against[k].topos = S("Nytte")
       /\ Response(1).against[k].ratio_id # None
       /\ Response(1).against[k] = Response(2).against[k]

====
